---------------------------- MODULE Spec2Model ----------------------------
(***************************************************************************)
(* Safe-mode bootstrap guard of src/App/SafeMode.cpp.                      *)
(*                                                                         *)
(* The model follows one user's machine through successive launches of the *)
(* application: the wall clock, the boot marker file in the system temp    *)
(* directory, the scratch directories on disk, and, while a process is     *)
(* alive, its configuration map, the static pointer tempDir and the        *)
(* QTemporaryDir objects it has allocated.  Strings are sequences of       *)
(* tokens, so that concatenation, prefixes and suffixes are computed.      *)
(*                                                                         *)
(* Spec runs one process at a time and takes each operation as one step.   *)
(* SpecRace runs several processes side by side on the same marker file,   *)
(* one step for each access to the file.                                   *)
(***************************************************************************)
EXTENDS Integers, Sequences, FiniteSets, TLC

VARIABLES
    now,        \* wall clock, in seconds (QDateTime::currentDateTime)
    marker,     \* the file <temp>/FREECAD_BOOT_NOT_COMPLETE
    dirs,       \* the scratch directories that exist on disk
    alive,      \* a process of the application is running
    build,      \* the build the running process is of (0: none runs)
    config,     \* App::GetApplication().Config() of the running process
    tempDir,    \* static QTemporaryDir * tempDir; 0 is nullptr
    heap,       \* the QTemporaryDir objects allocated and not deleted
    diag,       \* the lines the last operation sent to qWarning()
    last,       \* the operation that has just returned: its arguments and
                \* what it met (op is "none" after any other step)
    run,        \* what the running process has done so far
    origin,     \* where the marker, or its absence, comes from
    procs       \* the processes that run side by side (SpecRace), each with
                \* its own configuration, tempDir and place in the code

vars == <<now, marker, dirs, alive, build, config, tempDir, heap, diag,
          last, run, origin, procs>>

----------------------------------------------------------------------------
\* Constants of the program

PATHSEP == "/"

secondsPerHour == 3600

freshHours == 12

BootWarning == "Failed boot detected, entering safe mode!"

\* the initializer list of _replaceDirs, in its order
ProfileDirs ==
    <<"UserAppData", "UserConfigPath", "UserCachePath", "AppTempPath",
      "UserMacroPath", "UserHomePath">>

ProfileKeys == {ProfileDirs[i] : i \in 1..Len(ProfileDirs)}

----------------------------------------------------------------------------
\* Bounds of the model

\* scratch directories that can exist on disk at the same time
MaxTempDirs == 1

\* the instants the wall clock can show: the start, and the instants one
\* second either side of the freshness limit after it
ClockValues ==
    {0, freshHours * secondsPerHour, freshHours * secondsPerHour + 1}

\* The builds that are launched: the keys each one's configuration holds.
\*   1: revision, branch and hash      "1.0 main cafe"
\*   2: revision and branch            "9.9 main"
\*   3: no BuildRevision key at all    ""
Builds == 1..3

BuildKeys(b) ==
    CASE b = 1 -> [k \in {"BuildRevision", "BuildRevisionBranch", "BuildRevisionHash"} |->
                     CASE k = "BuildRevision" -> <<"1.0">>
                       [] k = "BuildRevisionBranch" -> <<"main">>
                       [] OTHER -> <<"cafe">>]
      [] b = 2 -> [k \in {"BuildRevision", "BuildRevisionBranch"} |->
                     IF k = "BuildRevision" THEN <<"9.9">> ELSE <<"main">>]
      [] OTHER -> [k \in {} |-> <<>>]

\* the text _bootFileContent is to give for build b
BuildIdentity(b) ==
    CASE b = 1 -> <<"1.0", " ", "main", " ", "cafe">>
      [] b = 2 -> <<"9.9", " ", "main">>
      [] OTHER -> <<>>

\* the directory creations of one _replaceDirs that fail: none, that of the
\* first directory, or all of them
MkpathFailures ==
    {{}, {ProfileDirs[1]}, ProfileKeys}

----------------------------------------------------------------------------
\* Strings, paths and the configuration map

EndsWith(s, t) ==
    /\ Len(s) >= Len(t)
    /\ SubSeq(s, Len(s) - Len(t) + 1, Len(s)) = t

StartsWith(s, t) ==
    /\ Len(s) >= Len(t)
    /\ SubSeq(s, 1, Len(t)) = t

\* the directory a path names: a trailing separator does not count
CleanPath(p) ==
    IF Len(p) > 1 /\ p[Len(p)] = PATHSEP THEN SubSeq(p, 1, Len(p) - 1) ELSE p

\* QTemporaryDir::path() of the n-th unique name the OS hands out
TempPath(n) == <<"tmp", PATHSEP, ToString(n)>>

\* the profile directory the host configured before safe mode
RealPath(k) == <<"home", PATHSEP, k, PATHSEP>>

\* the configuration the host hands to a process of build b
InitialConfig(b) ==
    [k \in DOMAIN BuildKeys(b) \cup ProfileKeys |->
        IF k \in ProfileKeys THEN RealPath(k) ELSE BuildKeys(b)[k]]

NoConfig == [k \in {} |-> <<>>]

\* std::map::operator[]: a key that is absent is inserted with an empty string
MapIndex(cfg, k) ==
    IF k \in DOMAIN cfg
    THEN cfg
    ELSE [x \in DOMAIN cfg \cup {k} |-> IF x = k THEN <<>> ELSE cfg[x]]

MapAssign(cfg, k, v) ==
    [x \in DOMAIN cfg \cup {k} |-> IF x = k THEN v ELSE cfg[x]]

NoFile == [exists |-> FALSE, body |-> <<>>, mtime |-> 0]

File(body, mtime) == [exists |-> TRUE, body |-> body, mtime |-> mtime]

\* QDateTime::secsTo
secsTo(from, to) == to - from

----------------------------------------------------------------------------
\* The static functions of SafeMode.cpp

\* _bootFileContent: the text, and the map after config["BuildRevision"]
_bootFileContent(cfg) ==
    LET c0 == MapIndex(cfg, "BuildRevision")
        s0 == c0["BuildRevision"]
        s1 == IF "BuildRevisionBranch" \in DOMAIN c0
              THEN s0 \o <<" ">> \o c0["BuildRevisionBranch"]
              ELSE s0
        s2 == IF "BuildRevisionHash" \in DOMAIN c0
              THEN s1 \o <<" ">> \o c0["BuildRevisionHash"]
              ELSE s1
    IN  [content |-> s2, config |-> c0]

\* _didBootFailRecently with a time difference below zero taken for an error
_didBootFailRecently_pastOnly(cfg, file, currentTime, canRead) ==
    IF ~file.exists
    THEN [ret |-> FALSE, config |-> cfg]
    ELSE IF \/ secsTo(file.mtime, currentTime) > freshHours * secondsPerHour
            \/ secsTo(file.mtime, currentTime) < 0
    THEN [ret |-> FALSE, config |-> cfg]
    ELSE IF ~canRead
    THEN [ret |-> FALSE, config |-> cfg]
    ELSE LET b == _bootFileContent(cfg)
         IN  [ret |-> (file.body = b.content), config |-> b.config]

\* _didBootFailRecently without the comparison of the content
_didBootFailRecently_anyContent(cfg, file, currentTime, canRead) ==
    IF ~file.exists
    THEN [ret |-> FALSE, config |-> cfg]
    ELSE IF secsTo(file.mtime, currentTime) > freshHours * secondsPerHour
    THEN [ret |-> FALSE, config |-> cfg]
    ELSE IF ~canRead
    THEN [ret |-> FALSE, config |-> cfg]
    ELSE [ret |-> TRUE, config |-> _bootFileContent(cfg).config]

\* _didBootFailRecently with >= for > in the test of the age
_didBootFailRecently_strict(cfg, file, currentTime, canRead) ==
    IF ~file.exists
    THEN [ret |-> FALSE, config |-> cfg]
    ELSE IF secsTo(file.mtime, currentTime) >= freshHours * secondsPerHour
    THEN [ret |-> FALSE, config |-> cfg]
    ELSE IF ~canRead
    THEN [ret |-> FALSE, config |-> cfg]
    ELSE LET b == _bootFileContent(cfg)
         IN  [ret |-> (file.body = b.content), config |-> b.config]

\* _didBootFailRecently taking a file that holds the beginning of the
\* expected text for a match
_didBootFailRecently_prefix(cfg, file, currentTime, canRead) ==
    IF ~file.exists
    THEN [ret |-> FALSE, config |-> cfg]
    ELSE IF secsTo(file.mtime, currentTime) > freshHours * secondsPerHour
    THEN [ret |-> FALSE, config |-> cfg]
    ELSE IF ~canRead
    THEN [ret |-> FALSE, config |-> cfg]
    ELSE LET b == _bootFileContent(cfg)
         IN  [ret |-> StartsWith(b.content, file.body), config |-> b.config]

\* _didBootFailRecently: canRead is whether QFile::open(ReadOnly) succeeds
_didBootFailRecently(cfg, file, currentTime, canRead) ==
    IF ~file.exists
    THEN [ret |-> FALSE, config |-> cfg]
    ELSE IF secsTo(file.mtime, currentTime) > freshHours * secondsPerHour
    THEN [ret |-> FALSE, config |-> cfg]
    ELSE IF ~canRead
    THEN [ret |-> FALSE, config |-> cfg]
    ELSE LET b == _bootFileContent(cfg)
         IN  [ret |-> (file.body = b.content), config |-> b.config]

\* _createBootFile opening the file to append, not to truncate
_createBootFile_append(cfg, file, currentTime, written) ==
    IF written = "openfail"
    THEN [file |-> file, config |-> cfg]
    ELSE LET b == _bootFileContent(cfg)
         IN  [file |-> File(file.body \o (IF written = "ok" THEN b.content ELSE <<>>),
                            currentTime),
              config |-> b.config]

\* _createBootFile: written is "openfail" when QFile::open(WriteOnly) fails,
\* "writefail" when the file was opened (and truncated) and the text did not
\* reach it, "ok" otherwise
_createBootFile(cfg, file, currentTime, written) ==
    IF written = "openfail"
    THEN [file |-> file, config |-> cfg]
    ELSE LET b == _bootFileContent(cfg)
         IN  [file |-> File(IF written = "ok" THEN b.content ELSE <<>>, currentTime),
              config |-> b.config]

\* the names the OS can still hand out: unique among what exists
FreeTempIds(fs, objs) ==
    {n \in 1..MaxTempDirs : CleanPath(TempPath(n)) \notin fs /\ n \notin objs}

\* _createTemporaryBaseDir leaving tempDir on the object it has just deleted
_createTemporaryBaseDir_keepsInvalid(objs, fs, valid) ==
    IF valid
    THEN LET n == CHOOSE i \in FreeTempIds(fs, objs) :
                      \A j \in FreeTempIds(fs, objs) : i <= j
         IN  [tempDir |-> n, heap |-> objs \cup {n},
              dirs |-> fs \cup {CleanPath(TempPath(n))}]
    ELSE [tempDir |-> MaxTempDirs + 1, heap |-> objs, dirs |-> fs]

\* _createTemporaryBaseDir: valid is QTemporaryDir::isValid() of the new
\* object.  The previous value of tempDir is overwritten, never deleted.
_createTemporaryBaseDir(objs, fs, valid) ==
    IF valid
    THEN LET n == CHOOSE i \in FreeTempIds(fs, objs) :
                      \A j \in FreeTempIds(fs, objs) : i <= j
         IN  [tempDir |-> n, heap |-> objs \cup {n},
              dirs |-> fs \cup {CleanPath(TempPath(n))}]
    ELSE [tempDir |-> 0, heap |-> objs, dirs |-> fs]

\* the path without the separator that ends it
ScratchPath_noSep(temp_base, d) == temp_base \o <<PATHSEP>> \o <<d>>

\* the path _replaceDirs builds for directory d
ScratchPath(temp_base, d) == temp_base \o <<PATHSEP>> \o <<d>> \o <<PATHSEP>>

\* the loop of _replaceDirs from its i-th directory on; QDir().mkpath fails
\* for the directories in bad
RECURSIVE ReplaceFrom(_, _, _, _, _)
ReplaceFrom(i, cfg, fs, temp_base, bad) ==
    IF i > Len(ProfileDirs)
    THEN [config |-> cfg, dirs |-> fs]
    ELSE LET d    == ProfileDirs[i]
             path == ScratchPath(temp_base, d)
             fs1  == IF d \in bad THEN fs ELSE fs \cup {CleanPath(path)}
         IN  ReplaceFrom(i + 1, MapAssign(cfg, d, path), fs1, temp_base, bad)

\* a loop that returns at the first directory it cannot create
RECURSIVE ReplaceUntilFailure(_, _, _, _, _)
ReplaceUntilFailure(i, cfg, fs, temp_base, bad) ==
    IF i > Len(ProfileDirs) \/ ProfileDirs[i] \in bad
    THEN [config |-> cfg, dirs |-> fs]
    ELSE LET d    == ProfileDirs[i]
             path == ScratchPath(temp_base, d)
         IN  ReplaceUntilFailure(i + 1, MapAssign(cfg, d, path),
                                 fs \cup {CleanPath(path)}, temp_base, bad)

_replaceDirs_stopOnFailure(cfg, fs, dir, bad) ==
    ReplaceUntilFailure(1, cfg, fs, TempPath(dir), bad)

_replaceDirs(cfg, fs, dir, bad) ==
    ReplaceFrom(1, cfg, fs, TempPath(dir), bad)

\* the warning on every entry, forced or not
qWarning_always(bootFailedPreviously) == <<BootWarning>>

\* the line InitializeSafeMode sends to qWarning() once the scratch root is there
qWarning(bootFailedPreviously) ==
    IF bootFailedPreviously THEN <<BootWarning>> ELSE <<>>

\* a BootUpComplete that leaves the file where it is
remove_nothing(file, canRemove) == file

\* QFile::remove
remove(file, canRemove) ==
    IF file.exists /\ canRemove THEN NoFile ELSE file

\* the scratch tree of a QTemporaryDir, which its destructor removes
ScratchTree(n) ==
    {p \in dirs : p = CleanPath(TempPath(n)) \/ StartsWith(p, TempPath(n) \o <<PATHSEP>>)}

\* a SafeModeEnabled that tells whether a scratch root was ever allocated
SafeModeEnabledValue_anyRoot == heap # {}

\* SafeModeEnabled: the pointer converted to bool
SafeModeEnabledValue == tempDir # 0

----------------------------------------------------------------------------
\* What is remembered of the calls

\* origin: writer is the build whose InitializeSafeMode wrote the text the
\* marker holds (0: no marker, or one left without its text); pending says
\* that the process that wrote it had not called BootUpComplete, then or
\* since; cleared says that the marker is absent because BootUpComplete
\* removed it or found none; cut says that the marker is the empty file a
\* process left when it died inside _createBootFile
NoOrigin ==
    [writer |-> 0, pending |-> FALSE, cleared |-> FALSE, cut |-> FALSE]

NoCall ==
    [op |-> "none", force |-> FALSE, detected |-> FALSE, canRead |-> TRUE,
     written |-> "ok", valid |-> TRUE, canRemove |-> TRUE, result |-> FALSE,
     met |-> "none", same |-> FALSE, inherited |-> FALSE, wasActive |-> FALSE,
     first |-> FALSE]

\* run: phase is "start" until the first InitializeSafeMode or
\* BootUpComplete, "booting" once InitializeSafeMode has returned and as long
\* as BootUpComplete has not been called, "booted" from the first
\* BootUpComplete on; initOk says, while booting, that the marker holds the
\* text this process wrote; mkFailed are the directories the last
\* _replaceDirs could not create
NewRun ==
    [phase |-> "start", initOk |-> FALSE, destructed |-> FALSE, mkFailed |-> {}]

PhaseAfterInit(phase) == IF phase = "booted" THEN "booted" ELSE "booting"

\* last.met: the marker the call found, by its age
Met(file, currentTime) ==
    IF ~file.exists THEN "none"
    ELSE IF secsTo(file.mtime, currentTime) > freshHours * secondsPerHour
    THEN "stale" ELSE "fresh"

\* last.inherited: the call is the first of its process to touch the marker,
\* and the marker is the one a process of the same build wrote and left
\* behind without calling BootUpComplete
Inherited ==
    run.phase = "start" /\ origin.writer = build /\ origin.pending

\* the marker holds the text an InitializeSafeMode of this process wrote:
\* this call wrote it, or it could not open the file an earlier call wrote
WriteStands(written, before) ==
    (written = "ok") \/ (written = "openfail" /\ before)

\* the processes of SpecRace: the machine starts them in the order of their
\* numbers, and runs two of them at a time
Procs == 1..3

\* the builds of which processes run side by side
RaceBuilds == 1..2

\* a process that has not been started
NoProc ==
    [pc |-> "idle", build |-> 0, force |-> FALSE, config |-> NoConfig,
     tempDir |-> 0, bootFailedPreviously |-> FALSE, fd |-> "none",
     wrote |-> FALSE, endedAt |-> "idle", returnedBefore |-> {}, endedBefore |-> {}]

----------------------------------------------------------------------------
Init ==
    /\ now = 0
    /\ marker = NoFile
    /\ dirs = {}
    /\ alive = FALSE
    /\ build = 0
    /\ config = NoConfig
    /\ tempDir = 0
    /\ heap = {}
    /\ diag = <<>>
    /\ last = NoCall
    /\ run = NewRun
    /\ origin = NoOrigin
    /\ procs = [p \in Procs |-> NoProc]

\* the host starts a process of build b, in a temp area that holds no
\* scratch tree of an earlier process
Launch(b) ==
    /\ ~alive
    /\ dirs = {}
    /\ alive' = TRUE
    /\ build' = b
    /\ config' = InitialConfig(b)
    /\ tempDir' = 0
    /\ heap' = {}
    /\ diag' = <<>>
    /\ last' = NoCall
    /\ run' = NewRun
    /\ UNCHANGED <<now, marker, dirs, origin, procs>>

\* lines 142-143 in the other order: the marker is written, then looked for
CreateThenDetect(cfg, file, currentTime, canRead, written) ==
    LET cre == _createBootFile(cfg, file, currentTime, written)
        det == _didBootFailRecently(cre.config, cre.file, currentTime, canRead)
    IN  [bootFailedPreviously |-> det.ret, file |-> cre.file, config |-> det.config]

\* lines 142-143 with the marker written only when no failure was detected
DetectThenCreateIfClean(cfg, file, currentTime, canRead, written) ==
    LET det == _didBootFailRecently(cfg, file, currentTime, canRead)
        cre == _createBootFile(det.config, file, currentTime, written)
    IN  IF det.ret
        THEN [bootFailedPreviously |-> TRUE, file |-> file, config |-> det.config]
        ELSE [bootFailedPreviously |-> FALSE, file |-> cre.file, config |-> cre.config]

\* lines 142-143: the detection sees the marker as it is before
\* _createBootFile replaces it
DetectThenCreate(cfg, file, currentTime, canRead, written) ==
    LET det == _didBootFailRecently(cfg, file, currentTime, canRead)
        cre == _createBootFile(det.config, file, currentTime, written)
    IN  [bootFailedPreviously |-> det.ret, file |-> cre.file, config |-> cre.config]

\* the marker has an age the freshness test lets through
Fresh(file, currentTime) ==
    file.exists /\ ~(secsTo(file.mtime, currentTime) > freshHours * secondsPerHour)

\* SafeMode::InitializeSafeMode(forceSafeMode)
InitializeSafeMode(forceSafeMode, canRead, written, valid, bad) ==
    /\ alive /\ ~run.destructed
    /\ \E dc \in {DetectThenCreate(config, marker, now, canRead, written)} :
       LET bootFailedPreviously == dc.bootFailedPreviously
       IN  /\ marker' = dc.file
           /\ IF bootFailedPreviously \/ forceSafeMode
              THEN \E tmp \in {_createTemporaryBaseDir(heap, dirs, valid)} :
                     /\ tempDir' = tmp.tempDir
                     /\ heap' = tmp.heap
                     /\ IF tmp.tempDir # 0
                        THEN \E rep \in {_replaceDirs(dc.config, tmp.dirs, tmp.tempDir, bad)} :
                               /\ diag' = qWarning(bootFailedPreviously)
                               /\ config' = rep.config
                               /\ dirs' = rep.dirs
                               /\ run' = [run EXCEPT
                                            !.phase = PhaseAfterInit(run.phase),
                                            !.initOk = run.phase # "booted"
                                                       /\ WriteStands(written, run.initOk),
                                            !.mkFailed = bad]
                        ELSE /\ diag' = <<>>
                             /\ config' = dc.config
                             /\ dirs' = tmp.dirs
                             /\ run' = [run EXCEPT
                                          !.phase = PhaseAfterInit(run.phase),
                                          !.initOk = run.phase # "booted"
                                                     /\ WriteStands(written, run.initOk)]
              ELSE /\ diag' = <<>>
                   /\ config' = dc.config
                   /\ run' = [run EXCEPT
                                !.phase = PhaseAfterInit(run.phase),
                                !.initOk = run.phase # "booted"
                                           /\ WriteStands(written, run.initOk)]
                   /\ UNCHANGED <<tempDir, heap, dirs>>
           /\ origin' = CASE written = "ok" ->
                               [writer |-> build, pending |-> run.phase # "booted",
                                cleared |-> FALSE, cut |-> FALSE]
                          [] written = "writefail" -> NoOrigin
                          [] OTHER -> origin
           /\ last' = [NoCall EXCEPT
                        !.op = "InitializeSafeMode", !.force = forceSafeMode,
                        !.detected = bootFailedPreviously,
                        !.canRead = canRead, !.written = written, !.valid = valid,
                        !.met = Met(marker, now),
                        !.same = marker.exists /\ marker.body = BuildIdentity(build),
                        !.inherited = Inherited,
                        !.first = (run.phase = "start"),
                        !.wasActive = (tempDir # 0)]
    /\ UNCHANGED <<now, alive, build, procs>>

\* the running process is gone: its memory with it, the disk as it is
Gone ==
    /\ alive' = FALSE
    /\ build' = 0
    /\ config' = NoConfig
    /\ tempDir' = 0
    /\ heap' = {}
    /\ diag' = <<>>
    /\ last' = NoCall
    /\ run' = NewRun

\* the process dies inside _createBootFile, after QFile::open has truncated
\* the marker and before the text is written
CrashInCreateBootFile ==
    /\ alive /\ ~run.destructed
    /\ marker' = File(<<>>, now)
    /\ origin' = [NoOrigin EXCEPT !.cut = TRUE]
    /\ Gone
    /\ UNCHANGED <<now, dirs, procs>>

\* SafeMode::BootUpComplete()
BootUpComplete(canRemove) ==
    /\ alive /\ ~run.destructed
    /\ ~marker.exists => canRemove
    /\ marker' = remove(marker, canRemove)
    /\ run' = [run EXCEPT !.phase = "booted", !.initOk = FALSE]
    /\ origin' = IF marker'.exists
                 THEN [origin EXCEPT !.pending = FALSE]
                 ELSE [NoOrigin EXCEPT !.cleared = TRUE]
    /\ diag' = <<>>
    /\ last' = [NoCall EXCEPT !.op = "BootUpComplete", !.canRemove = canRemove,
                              !.met = Met(marker, now)]
    /\ UNCHANGED <<now, dirs, alive, build, config, tempDir, heap, procs>>

\* SafeMode::SafeModeEnabled()
SafeModeEnabled ==
    /\ alive
    /\ diag' = <<>>
    /\ last' = [NoCall EXCEPT !.op = "SafeModeEnabled",
                              !.result = SafeModeEnabledValue]
    /\ UNCHANGED <<now, marker, dirs, alive, build, config, tempDir, heap, run,
                   origin, procs>>

\* SafeMode::Destruct() with tempDir null or pointing to a live object:
\* delete tempDir, which leaves the pointer as it is
Destruct ==
    /\ alive
    /\ tempDir = 0 \/ tempDir \in heap
    /\ heap' = heap \ {tempDir}
    /\ dirs' = IF tempDir = 0 THEN dirs ELSE dirs \ ScratchTree(tempDir)
    /\ run' = [run EXCEPT !.destructed = TRUE]
    /\ diag' = <<>>
    /\ last' = [NoCall EXCEPT !.op = "Destruct"]
    /\ UNCHANGED <<now, marker, alive, build, config, tempDir, origin, procs>>

\* the process ends: it exits, or it crashes or is killed
ProcessEnds ==
    /\ alive
    /\ Gone
    /\ UNCHANGED <<now, marker, dirs, origin, procs>>

\* SafeMode::Destruct() called again after it deleted the object: a second
\* delete of the same pointer is undefined, and either goes unnoticed or
\* brings the process down
DestructAgain(crash) ==
    /\ alive
    /\ tempDir # 0 /\ tempDir \notin heap
    /\ IF crash
       THEN /\ alive' = FALSE
            /\ build' = 0
            /\ config' = NoConfig
            /\ tempDir' = 0
            /\ heap' = {}
            /\ diag' = <<>>
            /\ last' = [NoCall EXCEPT !.op = "Destruct"]
            /\ run' = NewRun
            /\ UNCHANGED <<now, marker, dirs, origin, procs>>
       ELSE /\ diag' = <<>>
            /\ last' = [NoCall EXCEPT !.op = "Destruct"]
            /\ UNCHANGED <<now, marker, dirs, alive, build, config, tempDir,
                           heap, run, origin, procs>>

\* the wall clock moves: forward as time passes, or to any other instant
\* when it is set
AdvanceClock(t) ==
    /\ t # now
    /\ now' = t
    /\ diag' = <<>>
    /\ last' = NoCall
    /\ UNCHANGED <<marker, dirs, alive, build, config, tempDir, heap, run, origin,
                   procs>>

\* the OS clears a scratch tree that no running process owns
ReclaimTemp(n) ==
    /\ n \notin heap
    /\ ScratchTree(n) # {}
    /\ dirs' = dirs \ ScratchTree(n)
    /\ diag' = <<>>
    /\ last' = NoCall
    /\ UNCHANGED <<now, marker, alive, build, config, tempDir, heap, run, origin,
                   procs>>

\* What the file system can answer to one InitializeSafeMode.  An answer to a
\* request the call does not make is not a separate case: it is then the
\* first of the values below.
ReadOutcomes == IF Fresh(marker, now) THEN {TRUE, FALSE} ELSE {TRUE}

WriteOutcomes == {"ok", "openfail", "writefail"}

Asks(forceSafeMode, canRead) ==
    forceSafeMode \/ _didBootFailRecently(config, marker, now, canRead).ret

ProvisionOutcomes(forceSafeMode, canRead) ==
    IF Asks(forceSafeMode, canRead)
    THEN IF FreeTempIds(dirs, heap) # {} THEN {TRUE, FALSE} ELSE {FALSE}
    ELSE {TRUE}

MkpathOutcomes(forceSafeMode, canRead, valid) ==
    IF Asks(forceSafeMode, canRead) /\ valid THEN MkpathFailures ELSE {{}}

Next ==
    \/ \E b \in Builds : Launch(b)
    \/ \E f \in BOOLEAN, r \in ReadOutcomes, w \in WriteOutcomes :
          \E v \in ProvisionOutcomes(f, r) :
             \E bad \in MkpathOutcomes(f, r, v) :
                InitializeSafeMode(f, r, w, v, bad)
    \/ CrashInCreateBootFile
    \/ \E r \in BOOLEAN : BootUpComplete(r)
    \/ SafeModeEnabled
    \/ Destruct
    \/ \E c \in BOOLEAN : DestructAgain(c)
    \/ ProcessEnds
    \/ \E t \in ClockValues : AdvanceClock(t)
    \/ \E n \in 1..MaxTempDirs : ReclaimTemp(n)

Spec == Init /\ [][Next]_vars

----------------------------------------------------------------------------
\* Several processes on one marker file.  No lock is taken anywhere in
\* SafeMode.cpp: each access to the file is a step of its own, and the steps
\* of the processes interleave freely.

\* what a process of SpecRace leaves alone
RaceFrame ==
    UNCHANGED <<now, alive, build, config, tempDir, heap, diag, last, run, origin>>

\* InitializeSafeMode has returned in the process
Returned(r) ==
    \/ r.pc \in {"booting", "booted"}
    \/ r.pc = "ended" /\ r.endedAt \in {"booting", "booted"}

\* where InitializeSafeMode goes on after _createBootFile (line 144)
AfterCreate(r) ==
    IF r.bootFailedPreviously \/ r.force THEN "temp" ELSE "booting"

\* a write at the start of a file that holds old: what lies beyond the text
\* written stays
Overlay(old, text) == text \o SubSeq(old, Len(text) + 1, Len(old))

\* the names QTemporaryDir can take when processes run side by side
RaceTempIds == 1..(MaxTempDirs + 1)

FreeRaceIds(fs) == {n \in RaceTempIds : CleanPath(TempPath(n)) \notin fs}

\* a QTemporaryDir that takes the first name whether or not it is in use
UniqueTempId_first(fs) == 1

\* the name of a new QTemporaryDir: one that names nothing that exists
UniqueTempId(fs) ==
    CHOOSE i \in FreeRaceIds(fs) : \A j \in FreeRaceIds(fs) : i <= j

\* the host starts process p, of build b, which calls
\* InitializeSafeMode(forceSafeMode)
Start(p, b, forceSafeMode) ==
    /\ procs[p].pc = "idle"
    /\ p > 1 => procs[p - 1].pc # "idle"
    /\ p > 2 => procs[p - 2].pc = "ended"
    /\ procs' = [procs EXCEPT ![p] =
                   [NoProc EXCEPT
                      !.pc = "stat", !.build = b, !.force = forceSafeMode,
                      !.config = InitialConfig(b),
                      !.returnedBefore = {q \in Procs : Returned(procs[q])},
                      !.endedBefore = {q \in Procs : procs[q].pc = "ended"}]]
    /\ UNCHANGED <<marker, dirs>>
    /\ RaceFrame

\* _didBootFailRecently, lines 61-71: QFileInfo::exists and the age
StatBootFile(p) ==
    /\ procs[p].pc = "stat"
    /\ procs' = [procs EXCEPT ![p] =
                   IF Fresh(marker, now)
                   THEN [@ EXCEPT !.pc = "read"]
                   ELSE [@ EXCEPT !.pc = "open", !.bootFailedPreviously = FALSE]]
    /\ UNCHANGED <<marker, dirs>>
    /\ RaceFrame

\* a read that takes any marker it can open for one of its build
ReadBootFile_anyContent(p) ==
    /\ procs[p].pc = "read"
    /\ procs' = [procs EXCEPT ![p] =
                   [@ EXCEPT !.pc = "open", !.bootFailedPreviously = marker.exists]]
    /\ UNCHANGED <<marker, dirs>>
    /\ RaceFrame

\* _didBootFailRecently, lines 76-84: QFile::open(ReadOnly), which fails
\* when the file is no longer there, readAll and the comparison
ReadBootFile(p) ==
    /\ procs[p].pc = "read"
    /\ procs' = [procs EXCEPT ![p] =
                   IF ~marker.exists
                   THEN [@ EXCEPT !.pc = "open", !.bootFailedPreviously = FALSE]
                   ELSE LET b == _bootFileContent(procs[p].config)
                        IN  [@ EXCEPT !.pc = "open",
                                      !.bootFailedPreviously = (marker.body = b.content),
                                      !.config = b.config]]
    /\ UNCHANGED <<marker, dirs>>
    /\ RaceFrame

\* _createBootFile, lines 103-106: QFile::open(WriteOnly) makes the file or
\* empties it; ok is whether it succeeds
OpenBootFile(p, ok) ==
    /\ procs[p].pc = "open"
    /\ IF ok
       THEN /\ marker' = File(<<>>, now)
            /\ procs' = [procs EXCEPT ![p] = [@ EXCEPT !.pc = "write", !.fd = "open"]]
       ELSE /\ marker' = marker
            /\ procs' = [procs EXCEPT ![p] = [@ EXCEPT !.pc = AfterCreate(procs[p])]]
    /\ UNCHANGED dirs
    /\ RaceFrame

\* _createBootFile, lines 107-109: the text goes to the start of the file
\* that was opened, which is the marker unless that was removed since
WriteBootFile(p) ==
    /\ procs[p].pc = "write"
    /\ \E b \in {_bootFileContent(procs[p].config)} :
          /\ marker' = IF procs[p].fd = "open"
                       THEN File(Overlay(marker.body, b.content), now)
                       ELSE marker
          /\ procs' = [procs EXCEPT ![p] =
                         [@ EXCEPT !.pc = AfterCreate(procs[p]),
                                   !.config = b.config,
                                   !.wrote = (procs[p].fd = "open"),
                                   !.fd = "none"]]
    /\ UNCHANGED dirs
    /\ RaceFrame

\* InitializeSafeMode, lines 145-150: _createTemporaryBaseDir and
\* _replaceDirs; the QTemporaryDir is valid as long as a name is left
EnterSafeMode(p) ==
    /\ procs[p].pc = "temp"
    /\ IF FreeRaceIds(dirs) # {}
       THEN \E n \in {UniqueTempId(dirs)} :
            \E rep \in {_replaceDirs(procs[p].config,
                                      dirs \cup {CleanPath(TempPath(n))}, n, {})} :
               /\ procs' = [procs EXCEPT ![p] =
                              [@ EXCEPT !.pc = "booting", !.tempDir = n,
                                        !.config = rep.config]]
               /\ dirs' = rep.dirs
       ELSE /\ procs' = [procs EXCEPT ![p] = [@ EXCEPT !.pc = "booting"]]
            /\ dirs' = dirs
    /\ UNCHANGED marker
    /\ RaceFrame

\* BootUpComplete: the marker is removed; a process that holds it open is
\* left with a file that has no name
RemoveBootFile(p) ==
    /\ procs[p].pc = "booting"
    /\ marker' = remove(marker, TRUE)
    /\ procs' = [q \in Procs |->
                   IF q = p THEN [procs[q] EXCEPT !.pc = "booted"]
                   ELSE IF marker.exists /\ procs[q].fd = "open"
                   THEN [procs[q] EXCEPT !.fd = "unlinked"]
                   ELSE procs[q]]
    /\ UNCHANGED dirs
    /\ RaceFrame

\* the process ends: it exits, or it crashes or is killed.  It does so
\* inside _createBootFile, with the marker open, or after InitializeSafeMode
\* has returned; a process that ends before that has changed nothing.
Exit(p) ==
    /\ procs[p].pc \in {"write", "booting", "booted"}
    /\ procs' = [procs EXCEPT ![p] =
                   [NoProc EXCEPT
                      !.pc = "ended", !.endedAt = procs[p].pc,
                      !.build = procs[p].build, !.wrote = procs[p].wrote,
                      !.returnedBefore = procs[p].returnedBefore,
                      !.endedBefore = procs[p].endedBefore]]
    /\ UNCHANGED <<marker, dirs>>
    /\ RaceFrame

RaceNext ==
    \/ \E p \in Procs, b \in RaceBuilds, f \in BOOLEAN : Start(p, b, f)
    \/ \E p \in Procs : StatBootFile(p)
    \/ \E p \in Procs : ReadBootFile(p)
    \/ \E p \in Procs, ok \in BOOLEAN : OpenBootFile(p, ok)
    \/ \E p \in Procs : WriteBootFile(p)
    \/ \E p \in Procs : EnterSafeMode(p)
    \/ \E p \in Procs : RemoveBootFile(p)
    \/ \E p \in Procs : Exit(p)

SpecRace == Init /\ [][RaceNext]_vars

----------------------------------------------------------------------------
\* Vocabulary of the properties

\* the step is a call of the operation that last' names
InitStep == last'.op = "InitializeSafeMode"

BootStep == last'.op = "BootUpComplete"

\* 12 hours, in seconds
TwelveHours == 12 * 3600

\* the age of the marker on the wall clock (negative: modified in the future)
MarkerAge == now - marker.mtime

\* the controller is Inactive / Active
Inactive == tempDir = 0

Active == tempDir # 0

MarkerIsOf(file, b) == file.exists /\ file.body = BuildIdentity(b)

\* config key k is bound to a path under the scratch root that tempDir holds
UnderScratchRoot(k) ==
    /\ k \in DOMAIN config
    /\ StartsWith(config[k], TempPath(tempDir) \o <<PATHSEP>>)

EndsWithSeparator(k) ==
    /\ k \in DOMAIN config
    /\ Len(config[k]) > 0
    /\ config[k][Len(config[k])] = PATHSEP

NamesDirectory(k) ==
    /\ k \in DOMAIN config
    /\ CleanPath(config[k]) \in dirs

----------------------------------------------------------------------------
\* C1 as stated: when a process of build X wrote the marker in
\* InitializeSafeMode and ended without calling BootUpComplete, the next
\* process of build X that calls InitializeSafeMode(false) while the marker is
\* at most 12 hours old, with scratch provisioning succeeding, ends Active.
C1_CrashDetected ==
    [][(/\ InitStep
        /\ Inherited
        /\ ~last'.force
        /\ marker.exists /\ MarkerAge <= TwelveHours
        /\ last'.valid)
       => SafeModeEnabledValue']_vars

\* C1 as amended: the same, provided the marker can be opened for reading.
C1_CrashDetectedWhenReadable ==
    [][(/\ InitStep
        /\ Inherited
        /\ ~last'.force
        /\ marker.exists /\ MarkerAge <= TwelveHours
        /\ last'.valid
        /\ last'.canRead)
       => SafeModeEnabledValue']_vars

C1_Witness ==
    /\ last.op = "InitializeSafeMode"
    /\ last.inherited /\ ~last.force /\ last.met = "fresh"
    /\ last.valid /\ last.canRead
    /\ SafeModeEnabledValue

\* C2 as stated: with no marker file, InitializeSafeMode(false) leaves the
\* controller Inactive, and on return the marker exists and its body is the
\* build identity (revision, then a space and the branch if present, then a
\* space and the hash if present).
C2_DetectBeforeWrite ==
    [][(InitStep /\ ~marker.exists /\ ~last'.force /\ Inactive)
       => (Inactive' /\ MarkerIsOf(marker', build))]_vars

\* C2 as amended: with no marker file, InitializeSafeMode(false) leaves the
\* controller Inactive, and on return, provided the marker write succeeded,
\* the marker exists and its body is the build identity.
C2_DetectBeforeWriteWhenWritten ==
    [][(InitStep /\ ~marker.exists /\ ~last'.force /\ Inactive)
       => (/\ Inactive'
           /\ last'.written = "ok" => MarkerIsOf(marker', build))]_vars

C2_Witness ==
    /\ last.op = "InitializeSafeMode"
    /\ last.met = "none" /\ ~last.force /\ ~last.wasActive
    /\ last.written = "ok"
    /\ Inactive
    /\ build = 1 /\ MarkerIsOf(marker, 1)

\* C3: a marker whose body differs from the build identity of the running
\* process never makes its InitializeSafeMode(false) go from Inactive to
\* Active, whatever the marker's modification time.
C3_VersionSensitivity ==
    [][(/\ InitStep
        /\ ~last'.force
        /\ Inactive
        /\ marker.exists /\ marker.body # BuildIdentity(build))
       => Inactive']_vars

C3_Witness ==
    /\ last.op = "InitializeSafeMode"
    /\ ~last.force /\ ~last.wasActive
    /\ last.met = "fresh" /\ ~last.same /\ last.canRead
    /\ Inactive

\* C4 as stated: the recent-failure check returns true iff the marker exists,
\* its modification time is no more than 12 hours before the current time
\* (exactly 12 hours, and a time in the future, count as fresh) and its body
\* equals the build identity; a marker older than that never makes
\* InitializeSafeMode(false) enter safe mode.
C4_Freshness ==
    [][InitStep
       => (/\ last'.detected
                = (/\ marker.exists
                   /\ MarkerAge <= TwelveHours
                   /\ marker.body = BuildIdentity(build))
           /\ (marker.exists /\ MarkerAge > TwelveHours /\ ~last'.force /\ Inactive)
                => Inactive')]_vars

\* C4 as amended: the recent-failure check returns true iff the marker
\* exists, is no more than 12 hours old, can be opened for reading, and its
\* body equals the build identity; a marker older than 12 hours never makes
\* InitializeSafeMode(false) enter safe mode.
C4_FreshnessWhenReadable ==
    [][InitStep
       => (/\ last'.detected
                = (/\ marker.exists
                   /\ MarkerAge <= TwelveHours
                   /\ last'.canRead
                   /\ marker.body = BuildIdentity(build))
           /\ (marker.exists /\ MarkerAge > TwelveHours /\ ~last'.force /\ Inactive)
                => Inactive')]_vars

\* the call could not rewrite the marker, which is therefore the one it met:
\* exactly 12 hours old, and detected
C4_Witness ==
    /\ last.op = "InitializeSafeMode"
    /\ last.written = "openfail"
    /\ marker.exists /\ MarkerAge = TwelveHours
    /\ last.detected

\* C5 as stated: whenever SafeModeEnabled returns true (before Destruct),
\* each of the six profile keys maps to a path that lies under the scratch
\* root, ends with the path separator, and names a directory that exists.
C5_RedirectionComplete ==
    (alive /\ ~run.destructed /\ SafeModeEnabledValue)
    => \A k \in ProfileKeys :
          UnderScratchRoot(k) /\ EndsWithSeparator(k) /\ NamesDirectory(k)

\* C5 as amended: whenever SafeModeEnabled returns true (before Destruct),
\* each of the six profile keys maps to a path that lies under the scratch
\* root and ends with the path separator, and that names a directory that
\* exists unless creating that directory failed.
C5_RedirectionCompleteUnlessMkpathFailed ==
    (alive /\ ~run.destructed /\ SafeModeEnabledValue)
    => \A k \in ProfileKeys :
          /\ UnderScratchRoot(k)
          /\ EndsWithSeparator(k)
          /\ k \notin run.mkFailed => NamesDirectory(k)

C5_Witness ==
    /\ alive /\ ~run.destructed
    /\ last.op = "SafeModeEnabled" /\ last.result
    /\ run.mkFailed = {}
    /\ \A k \in ProfileKeys : NamesDirectory(k)

\* C6 as stated: after InitializeSafeMode has returned and before
\* BootUpComplete has been called, the marker exists and its body equals the
\* build identity.
C6_MarkerDuringBoot ==
    (alive /\ run.phase = "booting") => MarkerIsOf(marker, build)

\* C6 as amended: after an InitializeSafeMode whose marker write succeeded
\* has returned and before BootUpComplete has been called, the marker exists
\* and its body equals the build identity.
C6_MarkerDuringBootWhenWritten ==
    (alive /\ run.phase = "booting" /\ run.initOk) => MarkerIsOf(marker, build)

C6_Witness ==
    /\ alive /\ run.phase = "booting" /\ run.initOk
    /\ last.op = "SafeModeEnabled"
    /\ build = 2 /\ MarkerIsOf(marker, 2)

\* C7: BootUpComplete leaves no marker when the file can be removed; called
\* when there is no marker (a second time, say) it changes nothing and the
\* process goes on; it touches nothing but the marker; and the first
\* InitializeSafeMode(false) of a later process that finds the marker so
\* cleared leaves that process Inactive.
C7_CompletionClears ==
    [][/\ BootStep
          => (/\ last'.canRemove => ~marker'.exists
              /\ ~marker.exists => marker' = marker
              /\ alive'
              /\ UNCHANGED <<config, tempDir, heap, dirs>>)
       /\ (InitStep /\ run.phase = "start" /\ origin.cleared /\ ~last'.force)
          => (~marker.exists /\ Inactive')]_vars

\* BootUpComplete has just returned from a call that found no marker
C7_Witness ==
    /\ last.op = "BootUpComplete"
    /\ last.met = "none"
    /\ origin.cleared /\ ~marker.exists

\* C8: within one process and before Destruct, once SafeModeEnabled returns
\* true no later call returns false: the controller never goes from Active
\* back to Inactive.
C8_MonotonicState ==
    [][(alive /\ ~run.destructed /\ SafeModeEnabledValue /\ alive')
       => SafeModeEnabledValue']_vars

\* C9: when the scratch directory cannot be created, an InitializeSafeMode
\* that is forced or has detected a failure returns normally, leaves the
\* controller Inactive, emits no warning and leaves the six profile keys as
\* they were.
C9_ProvisioningFailure ==
    [][(/\ InitStep
        /\ Inactive
        /\ last'.force \/ last'.detected
        /\ ~last'.valid)
       => (/\ alive'
           /\ Inactive'
           /\ diag' = <<>>
           /\ \A k \in ProfileKeys :
                 k \in DOMAIN config /\ k \in DOMAIN config' /\ config'[k] = config[k])]_vars

C9_Witness ==
    /\ last.op = "InitializeSafeMode"
    /\ last.detected /\ ~last.force /\ ~last.valid /\ ~last.wasActive
    /\ Inactive

\* C10: one InitializeSafeMode emits "Failed boot detected, entering safe
\* mode!" exactly once when it enters safe mode on a detected failure, and
\* nothing when the entry is only forced, when provisioning fails, or when it
\* does not enter.
C10_WarningPolicy ==
    [][InitStep
       => (/\ (last'.detected /\ last'.valid)
                => diag' = <<"Failed boot detected, entering safe mode!">>
           /\ (~last'.detected \/ ~last'.valid) => diag' = <<>>)]_vars

C10_Witness ==
    /\ last.op = "InitializeSafeMode"
    /\ last.force /\ ~last.detected /\ last.valid
    /\ Active
    /\ diag = <<>>

----------------------------------------------------------------------------
\* the step is a call of one of the four operations that returns
CallStep == alive /\ alive' /\ last'.op # "none"

DestructStep == last'.op = "Destruct"

\* a path in or under the scratch root of QTemporaryDir n
InScratchRoot(p, n) ==
    p = CleanPath(TempPath(n)) \/ StartsWith(p, TempPath(n) \o <<PATHSEP>>)

\* C11: Destruct called a second time, in a process that was Active or one
\* that was Inactive, has no further effect and is not an error: the process
\* goes on and nothing is released again.
C11_DestructIdempotent ==
    [][(alive /\ run.destructed /\ DestructStep)
       => (alive' /\ UNCHANGED <<marker, dirs, config, tempDir, heap>>)]_vars

\* C12: the first Destruct of a process that has been Active leaves no
\* scratch root of that process, nor anything under one, on disk; and before
\* Destruct no scratch root the process holds is released.
C12_Cleanup ==
    [][/\ (alive /\ ~run.destructed /\ heap # {} /\ DestructStep)
          => \A n \in heap : \A p \in dirs' : ~InScratchRoot(p, n)
       /\ (alive /\ alive' /\ ~run.destructed /\ ~DestructStep)
          => \A n \in heap : n \in heap' /\ CleanPath(TempPath(n)) \in dirs']_vars

\* the keys other than the six profile keys are the same, with the same values
OtherKeysKept ==
    /\ DOMAIN config' \ ProfileKeys = DOMAIN config \ ProfileKeys
    /\ \A k \in DOMAIN config \ ProfileKeys : config'[k] = config[k]

\* C13: no operation adds, removes or changes a key other than the six
\* profile keys (BuildRevision, BuildRevisionBranch and BuildRevisionHash
\* included, present or not); only InitializeSafeMode changes the mapping,
\* and when it ends Inactive the whole mapping is as it was.
C13_ConfigurationFrame ==
    [][CallStep
       => (/\ OtherKeysKept
           /\ ~InitStep => config' = config
           /\ (InitStep /\ Inactive') => config' = config)]_vars

\* a live scratch root is held
HoldsScratchRoot == tempDir \in heap

\* C14 as stated: SafeModeEnabled returns true iff a live scratch root is
\* held, returns false before InitializeSafeMode has been called, and changes
\* neither the controller, the marker, the configuration nor the scratch tree.
C14_Query ==
    [][(alive /\ last'.op = "SafeModeEnabled")
       => (/\ last'.result = HoldsScratchRoot
           /\ run.phase = "start" => ~last'.result
           /\ UNCHANGED <<tempDir, heap, marker, config, dirs>>)]_vars

\* C14 as amended: the same, the answer being that of a call made before
\* Destruct.
C14_QueryBeforeDestruct ==
    [][(alive /\ last'.op = "SafeModeEnabled")
       => (/\ ~run.destructed => last'.result = HoldsScratchRoot
           /\ run.phase = "start" => ~last'.result
           /\ UNCHANGED <<tempDir, heap, marker, config, dirs>>)]_vars

C14_Witness ==
    /\ alive /\ ~run.destructed
    /\ last.op = "SafeModeEnabled" /\ last.result
    /\ HoldsScratchRoot
    /\ run.phase = "booted"

\* C15 as stated: every InitializeSafeMode, whatever it detects, whatever
\* forceSafeMode is and whether or not the scratch root can be made, replaces
\* the marker: its body is exactly the build identity and its modification
\* time the current time.
C15_MarkerAlwaysWritten ==
    [][InitStep => marker' = File(BuildIdentity(build), now)]_vars

\* C15 as amended: the same, for every InitializeSafeMode whose marker write
\* succeeds.
C15_MarkerWrittenWhenWritable ==
    [][(InitStep /\ last'.written = "ok")
       => marker' = File(BuildIdentity(build), now)]_vars

\* a call that detected a failure and could not make the scratch root has
\* replaced the matching marker it met, which was older than the new one
C15_Witness ==
    /\ last.op = "InitializeSafeMode"
    /\ last.detected /\ ~last.valid /\ last.written = "ok"
    /\ now = TwelveHours
    /\ marker = File(BuildIdentity(build), now)

\* C16: when InitializeSafeMode returns, either the controller is Inactive
\* and none of the six profile keys was changed, or it is Active and all six
\* hold their scratch paths, never some of them; a directory that cannot be
\* created stops neither its key nor a later one from being written, and the
\* controller is Active all the same.
C16_AllOrNothing ==
    [][InitStep
       => (/\ Inactive' => \A k \in ProfileKeys : config'[k] = config[k]
           /\ Active' => \A k \in ProfileKeys :
                            config'[k] = TempPath(tempDir') \o <<PATHSEP, k, PATHSEP>>
           /\ ((last'.force \/ last'.detected) /\ last'.valid) => Active')]_vars

\* an entry in which the first directory could not be created
C16_Witness ==
    /\ last.op = "InitializeSafeMode"
    /\ last.valid /\ Active
    /\ run.mkFailed = {ProfileDirs[1]}
    /\ \A k \in ProfileKeys : UnderScratchRoot(k)
    /\ ~NamesDirectory(ProfileDirs[1])

\* C18: the empty marker that a process leaves when it dies inside
\* _createBootFile, after the file was opened and before the text was
\* written, does not make the InitializeSafeMode(false) of the next process
\* enter safe mode, when the build identity of that process is not empty.
C18_TruncatedMarker ==
    [][(/\ InitStep
        /\ run.phase = "start"
        /\ origin.cut
        /\ ~last'.force
        /\ BuildIdentity(build) # <<>>)
       => (marker.body = <<>> /\ ~last'.detected /\ Inactive')]_vars

\* the next process has met the empty marker, fresh and readable, and could
\* not replace it
C18_Witness ==
    /\ last.op = "InitializeSafeMode"
    /\ last.first /\ ~last.force
    /\ last.met = "fresh" /\ last.canRead /\ last.written = "openfail"
    /\ origin.cut /\ marker.body = <<>>
    /\ BuildIdentity(build) # <<>>
    /\ Inactive

----------------------------------------------------------------------------
\* Properties of SpecRace

\* InitializeSafeMode has returned in process p, which is still running
Booted(p) == procs[p].pc \in {"booting", "booted"}

\* C17: whatever the interleaving of the processes' accesses to the marker,
\* a process in which InitializeSafeMode has returned is Inactive with its
\* six profile keys as the host set them, or Active with all six under its
\* own scratch root; it is Active only when it was forced or found a marker
\* of its build (which another, running, process may have written, as it may
\* have removed the one a crash left); and no two processes have the same
\* scratch root.
C17_RaceTolerance ==
    /\ \A p \in Procs :
          Booted(p)
          => /\ \/ /\ procs[p].tempDir = 0
                   /\ \A k \in ProfileKeys : procs[p].config[k] = RealPath(k)
                \/ /\ procs[p].tempDir # 0
                   /\ \A k \in ProfileKeys :
                         procs[p].config[k]
                           = TempPath(procs[p].tempDir) \o <<PATHSEP, k, PATHSEP>>
             /\ procs[p].tempDir # 0
                  => (procs[p].force \/ procs[p].bootFailedPreviously)
    /\ \A p, q \in Procs :
          (p # q /\ procs[p].tempDir # 0 /\ procs[q].tempDir # 0)
          => procs[p].tempDir # procs[q].tempDir

\* two processes of one build that run side by side, the second in safe
\* mode for having found the marker of the first, the first in safe mode by
\* force: each has its own scratch root
C17_Witness ==
    \E p, q \in Procs :
       /\ p < q
       /\ procs[p].pc = "booting" /\ procs[q].pc = "booting"
       /\ procs[p].build = procs[q].build
       /\ procs[p].force /\ procs[p].tempDir # 0
       /\ ~procs[q].force /\ procs[q].bootFailedPreviously
       /\ procs[q].tempDir # 0
       /\ procs[q].tempDir # procs[p].tempDir
       /\ p \notin procs[q].endedBefore

\* process i wrote its marker and ended after InitializeSafeMode, without
\* BootUpComplete
CrashedDuringBoot(i) ==
    /\ procs[i].pc = "ended"
    /\ procs[i].endedAt = "booting"
    /\ procs[i].wrote

\* i, of build A, crashed during boot; j, of another build, was started
\* after that and its InitializeSafeMode returned; k, of build A, was started
\* after that with forceSafeMode false, and its InitializeSafeMode has
\* returned
Handover(i, j, k) ==
    /\ CrashedDuringBoot(i)
    /\ procs[j].build \notin {0, procs[i].build}
    /\ i \in procs[j].endedBefore
    /\ j \in procs[k].returnedBefore
    /\ procs[k].build = procs[i].build
    /\ ~procs[k].force
    /\ Booted(k)

\* C19 as stated: when build A has crashed during boot and a process of
\* another build B has then called InitializeSafeMode, whether or not it has
\* called BootUpComplete since, the next process of build A, with
\* forceSafeMode false, does not enter safe mode.
C19_CrashRecordLost ==
    \A i, j, k \in Procs : Handover(i, j, k) => procs[k].tempDir = 0

\* C19 as amended: the same, when the InitializeSafeMode of the process of
\* build B wrote its marker.
C19_CrashRecordLostWhenOverwritten ==
    \A i, j, k \in Procs :
       (Handover(i, j, k) /\ procs[j].wrote) => procs[k].tempDir = 0

\* the process of build B is still booting, and its marker is the one that
\* the next process of build A met and replaced
C19_Witness ==
    \E i, j, k \in Procs :
       /\ Handover(i, j, k) /\ procs[j].wrote
       /\ procs[j].pc = "booting"
       /\ procs[k].pc = "booting" /\ procs[k].wrote
       /\ ~procs[k].bootFailedPreviously
       /\ procs[k].tempDir = 0
       /\ MarkerIsOf(marker, procs[k].build)

=============================================================================
